---- MODULE Spec2Model ----
(***************************************************************************)
(* Appointment scheduling core of backend/backend.py: the slot conflict    *)
(* check of book_appointment, the status updates of                        *)
(* update_appointment_status and cancel_appointment, and the same-day      *)
(* completion done by add_vaccination and add_medication, the listings of  *)
(* each role and the deletions by the Admin.                               *)
(*                                                                         *)
(* A DATETIME is the number of minutes since midnight of date 0; a date is *)
(* a day number and a time of day is the minute of the day.                *)
(***************************************************************************)
EXTENDS Integers, Naturals, Sequences, FiniteSets, TLC

VARIABLES
    appointments,   \* table appointments: row i has appointment_id = i
    vaccinations,   \* table vaccinations
    medications,    \* table medications
    owners,         \* table owners: rows [owner_id, user_id]
    veterinarians,  \* table veterinarians: rows [vet_id, user_id]
    pets,           \* table pets: rows [pet_id, owner_id]
    users,          \* table users: rows [user_id, email, password, role, vchr_status]
    session,        \* per client, the Flask session: [user_id, role] or NoSession
    today,          \* CURDATE() of the store
    inflight,       \* book_appointment requests between their SELECT and their INSERT
    last            \* the request handled by the latest step, and its outcome

vars == <<appointments, vaccinations, medications, owners, veterinarians, pets,
          users, session, today, inflight, last>>

----------------------------------------------------------------------------
(* Bounds of the model *)

MaxAppts == 2       \* rows the appointments table may hold
MaxEntries == 1     \* rows vaccinations and medications may hold together
MaxInflight == 2    \* book_appointment requests that may overlap

----------------------------------------------------------------------------
(* Program constants *)

SlotMinutes == 30        \* INTERVAL 30 MINUTE
MinutesPerDay == 1440    \* DATETIME arithmetic: minutes in one date

None == [none |-> TRUE]          \* Python None / no row fetched
NoSession == [anonymous |-> TRUE]

Statuses == {"Pending", "Confirmed", "Completed", "Cancelled"}
DefaultStatus == "Pending"
DefaultUserStatus == "A"         \* users.vchr_status of a row inserted without it

Roles == {"Admin", "Veterinarian", "Pet Owner"}

Clients == 0 .. 7
PetIds == {1, 2}
NewUserIds == {8, 9}             \* AUTO_INCREMENT values of users added after Init
Emails == {2, 8}                 \* addresses typed into forms: user 2's and a new one
Passwords == {"p", "q"}          \* "p" is the password of every user of Init
VetIds == {1, 2}
Dates == {0, 1}
ApptIds == 1 .. MaxAppts
StatusInputs == Statuses
FreeStatusInputs == Statuses \cup {"Archived"}    \* the JSON field status is any string

----------------------------------------------------------------------------
(* Store helpers *)

\* The combined DATETIME with the time of day lost
Combine_date_only(date, time) == date * MinutesPerDay

\* appointment_datetime = f"{appointment_date} {appointment_time}", read by
\* the store as a DATETIME
Combine(date, time) == date * MinutesPerDay + time

\* DATE(appointment_date)
DateOf(dt) == dt \div MinutesPerDay

\* DATE_SUB(dt, INTERVAL 30 MINUTE) and DATE_ADD(dt, INTERVAL 30 MINUTE)
DateSub(dt) == dt - SlotMinutes
DateAdd(dt) == dt + SlotMinutes

\* BETWEEN read as an open interval
Between_exclusive(x, lo, hi) == lo < x /\ x < hi

\* x BETWEEN lo AND hi
Between(x, lo, hi) == lo <= x /\ x <= hi

\* SELECT owner_id FROM owners WHERE user_id = %s; fetchone()
owner_data(uid) ==
    IF \E o \in owners : o.user_id = uid
    THEN CHOOSE o \in owners : o.user_id = uid
    ELSE None

\* SELECT vet_id FROM veterinarians WHERE user_id = %s; fetchone()
vet_data_any_row(uid) ==
    IF \E v \in veterinarians : v.user_id = uid
    THEN CHOOSE v \in veterinarians : v.user_id = uid
    ELSE IF veterinarians # {} THEN CHOOSE v \in veterinarians : TRUE
    ELSE None

vet_data(uid) ==
    IF \E v \in veterinarians : v.user_id = uid
    THEN CHOOSE v \in veterinarians : v.user_id = uid
    ELSE None

\* The conflict SELECT without its status filter
ConflictRows_any_status(appts, vet_id, dt) ==
    {i \in DOMAIN appts :
        /\ appts[i].vet_id = vet_id
        /\ Between(appts[i].appointment_date, DateSub(dt), DateAdd(dt))}

\* The rows the conflict SELECT of book_appointment returns
ConflictRows(appts, vet_id, dt) ==
    {i \in DOMAIN appts :
        /\ appts[i].vet_id = vet_id
        /\ Between(appts[i].appointment_date, DateSub(dt), DateAdd(dt))
        /\ appts[i].status # "Cancelled"}

\* The appointment looked up by its id alone
AppointmentOfVet_any_vet(appts, appointment_id, vet_id) ==
    IF appointment_id \in DOMAIN appts THEN appts[appointment_id] ELSE None

\* SELECT * FROM appointments WHERE appointment_id = %s AND vet_id = %s; fetchone()
AppointmentOfVet(appts, appointment_id, vet_id) ==
    IF appointment_id \in DOMAIN appts /\ appts[appointment_id].vet_id = vet_id
    THEN appts[appointment_id]
    ELSE None

\* The appointment looked up by its id alone, whoever owns it
AppointmentOfOwner_any_owner(appts, appointment_id, owner_id) ==
    IF appointment_id \in DOMAIN appts THEN appts[appointment_id] ELSE None

\* SELECT * FROM appointments WHERE appointment_id = %s AND owner_id = %s; fetchone()
AppointmentOfOwner(appts, appointment_id, owner_id) ==
    IF appointment_id \in DOMAIN appts /\ appts[appointment_id].owner_id = owner_id
    THEN appts[appointment_id]
    ELSE None

\* The row INSERT INTO appointments (pet_id, owner_id, vet_id, appointment_date)
\* creates; status takes the column default
NewAppointment(pet_id, owner_id, vet_id, dt) ==
    [pet_id |-> pet_id, owner_id |-> owner_id, vet_id |-> vet_id,
     appointment_date |-> dt, status |-> DefaultStatus]

\* The same-day completion reaching Pending appointments only
CompleteToday_pending_only(appts, pet_id, vet_id, curdate) ==
    [i \in DOMAIN appts |->
        IF /\ appts[i].pet_id = pet_id
           /\ appts[i].vet_id = vet_id
           /\ DateOf(appts[i].appointment_date) = curdate
           /\ appts[i].status = "Pending"
        THEN [appts[i] EXCEPT !.status = "Completed"]
        ELSE appts[i]]

\* The same-day completion without its test of the date
CompleteToday_any_date(appts, pet_id, vet_id, curdate) ==
    [i \in DOMAIN appts |->
        IF /\ appts[i].pet_id = pet_id
           /\ appts[i].vet_id = vet_id
           /\ appts[i].status # "Cancelled"
        THEN [appts[i] EXCEPT !.status = "Completed"]
        ELSE appts[i]]

\* UPDATE appointments SET status = 'Completed' WHERE pet_id = %s AND vet_id = %s
\* AND DATE(appointment_date) = CURDATE() AND status != 'Cancelled'
CompleteToday(appts, pet_id, vet_id, curdate) ==
    [i \in DOMAIN appts |->
        IF /\ appts[i].pet_id = pet_id
           /\ appts[i].vet_id = vet_id
           /\ DateOf(appts[i].appointment_date) = curdate
           /\ appts[i].status # "Cancelled"
        THEN [appts[i] EXCEPT !.status = "Completed"]
        ELSE appts[i]]

\* UPDATE appointments SET status = %s WHERE appointment_id = %s
SetStatus_removes_cancelled(appts, appointment_id, status) ==
    IF status = "Cancelled"
    THEN [i \in DOMAIN appts \ {appointment_id} |-> appts[i]]
    ELSE [i \in DOMAIN appts |->
            IF i = appointment_id THEN [appts[i] EXCEPT !.status = status]
            ELSE appts[i]]

SetStatus(appts, appointment_id, status) ==
    [i \in DOMAIN appts |->
        IF i = appointment_id THEN [appts[i] EXCEPT !.status = status]
        ELSE appts[i]]

\* role_required admitting every logged-in caller whatever the role
role_required_any_role(c, roles) ==
    IF session[c] = NoSession THEN "Unauthenticated" ELSE "Pass"

\* role_required(*roles): the decorator's answer for client c
role_required(c, roles) ==
    IF session[c] = NoSession THEN "Unauthenticated"
    ELSE IF session[c].role \notin roles THEN "Forbidden"
    ELSE "Pass"

\* The request a step handled: operation, client, form or JSON fields (0 or
\* "-" where the operation has no such field), the outcome, the rows handed
\* to the template (none unless the operation is a listing) and the email of
\* a registration or login form (0 elsewhere)
Request(op, c, pet_id, vet_id, date, time, appointment_id, status, result) ==
    [op |-> op, client |-> c, pet_id |-> pet_id, vet_id |-> vet_id,
     date |-> date, time |-> time, appointment_id |-> appointment_id,
     status |-> status, result |-> result, rows |-> {}, email |-> 0]

----------------------------------------------------------------------------
(* Initial state: an empty schedule, the clinic's accounts and their sessions *)

Init ==
    /\ appointments = <<>>
    /\ vaccinations = <<>>
    /\ medications = <<>>
    /\ owners = {[owner_id |-> 1, user_id |-> 2], [owner_id |-> 2, user_id |-> 3]}
    /\ veterinarians = {[vet_id |-> 1, user_id |-> 4], [vet_id |-> 2, user_id |-> 5]}
    /\ pets = {[pet_id |-> 1, owner_id |-> 1], [pet_id |-> 2, owner_id |-> 2]}
    /\ users = {[user_id |-> u, email |-> u, password |-> "p",
                  role |-> IF u = 1 THEN "Admin"
                           ELSE IF u \in {2, 3, 6} THEN "Pet Owner" ELSE "Veterinarian",
                  vchr_status |-> DefaultUserStatus] : u \in 1 .. 7}
    /\ session = [c \in Clients |->
                    CASE c = 0 -> NoSession
                      [] c = 1 -> [user_id |-> 1, role |-> "Admin"]
                      [] c \in {2, 3, 6} -> [user_id |-> c, role |-> "Pet Owner"]
                      [] OTHER -> [user_id |-> c, role |-> "Veterinarian"]]
    /\ today = 0
    /\ inflight = {}
    /\ last = Request("start", 0, 0, 0, 0, 0, 0, "-", "-")

----------------------------------------------------------------------------
(* Operations. Each handler runs on its own connection and commits once; a *)
(* handler that returns or raises before conn.commit() leaves the store as *)
(* it found it.                                                            *)

Reply(r) ==
    /\ last' = r
    /\ UNCHANGED <<appointments, vaccinations, medications, pets>>

\* role_required answers before the handler reads any field of the request
Refused(r, gate) ==
    Request(r.op, r.client, 0, 0, 0, 0, 0, "-", gate)

\* book_appointment with the INSERT issued and committed before the conflict
\* check is answered
book_appointment_insert_first(c, pet_id, vet_id, date, time) ==
    LET gate  == role_required(c, {"Pet Owner"})
        owner == owner_data(session[c].user_id)
        dt    == Combine(date, time)
        req(result) == Request("book_appointment", c, pet_id, vet_id, date, time,
                               0, "-", result)
    IN  /\ UNCHANGED <<owners, veterinarians, users, session, today, inflight>>
        /\ IF gate # "Pass" THEN Reply(Refused(req("-"), gate))
           ELSE IF owner = None THEN Reply(req("ServerError"))
           ELSE /\ Len(appointments) < MaxAppts
                /\ appointments' =
                     Append(appointments, NewAppointment(pet_id, owner.owner_id, vet_id, dt))
                /\ last' = req(IF ConflictRows(appointments, vet_id, dt) # {}
                               THEN "Conflict" ELSE "Available")
                /\ UNCHANGED <<vaccinations, medications, pets>>

\* POST /book_appointment, handled without interleaving
book_appointment(c, pet_id, vet_id, date, time) ==
    LET gate  == role_required(c, {"Pet Owner"})
        owner == owner_data(session[c].user_id)
        dt    == Combine(date, time)
        req(result) == Request("book_appointment", c, pet_id, vet_id, date, time,
                               0, "-", result)
    IN  /\ UNCHANGED <<owners, veterinarians, users, session, today, inflight>>
        /\ IF gate # "Pass" THEN Reply(Refused(req("-"), gate))
           ELSE IF ConflictRows(appointments, vet_id, dt) # {}
                THEN Reply(req("Conflict"))
           ELSE IF owner = None
                THEN Reply(req("ServerError"))    \* owner_data["owner_id"] raises TypeError
           ELSE /\ Len(appointments) < MaxAppts
                /\ appointments' =
                     Append(appointments, NewAppointment(pet_id, owner.owner_id, vet_id, dt))
                /\ last' = req("Available")
                /\ UNCHANGED <<vaccinations, medications, pets>>

\* POST /book_appointment up to the conflict SELECT, on the request's own
\* connection: no lock is taken and nothing is written. A request that found
\* no conflicting row stays in flight until its INSERT.
book_select(c, pet_id, vet_id, date, time) ==
    LET gate  == role_required(c, {"Pet Owner"})
        owner == owner_data(session[c].user_id)
        dt    == Combine(date, time)
        req(result) == Request("book_appointment", c, pet_id, vet_id, date, time,
                               0, "-", result)
    IN  /\ \A r \in inflight : r.client # c
        /\ Cardinality(inflight) < MaxInflight
        /\ Len(appointments) + Cardinality(inflight) < MaxAppts
        /\ UNCHANGED <<appointments, vaccinations, medications, owners, veterinarians, users,
                       pets, session, today>>
        /\ IF gate # "Pass" THEN last' = Refused(req("-"), gate) /\ UNCHANGED inflight
           ELSE IF ConflictRows(appointments, vet_id, dt) # {}
                THEN last' = req("Conflict") /\ UNCHANGED inflight
           ELSE /\ inflight' = inflight \cup
                      {[client |-> c, pet_id |-> pet_id, vet_id |-> vet_id,
                        date |-> date, time |-> time, owner_data |-> owner]}
                /\ last' = req("NoConflict")

\* The rest of POST /book_appointment for a request in flight: the INSERT and
\* conn.commit()
book_insert(r) ==
    LET req(result) == Request("book_appointment", r.client, r.pet_id, r.vet_id,
                               r.date, r.time, 0, "-", result)
    IN  /\ r \in inflight
        /\ inflight' = inflight \ {r}
        /\ UNCHANGED <<owners, veterinarians, users, session, today>>
        /\ IF r.owner_data = None
           THEN Reply(req("ServerError"))    \* owner_data["owner_id"] raises TypeError
           ELSE /\ appointments' =
                     Append(appointments,
                            NewAppointment(r.pet_id, r.owner_data.owner_id, r.vet_id,
                                           Combine(r.date, r.time)))
                /\ last' = req("Available")
                /\ UNCHANGED <<vaccinations, medications, pets>>

\* POST /update_appointment_status
update_appointment_status(c, appointment_id, status) ==
    LET gate == role_required(c, {"Veterinarian"})
        vet  == vet_data(session[c].user_id)
        req(result) == Request("update_appointment_status", c, 0, 0, 0, 0,
                               appointment_id, status, result)
    IN  /\ UNCHANGED <<owners, veterinarians, users, session, today, inflight>>
        /\ IF gate # "Pass" THEN Reply(Refused(req("-"), gate))
           ELSE IF vet = None
                THEN Reply(req("ServerError"))    \* vet_data["vet_id"] raises TypeError
           ELSE IF AppointmentOfVet(appointments, appointment_id, vet.vet_id) = None
                THEN Reply(req("NotFound"))
           ELSE /\ appointments' = SetStatus(appointments, appointment_id, status)
                /\ last' = req("Success")
                /\ UNCHANGED <<vaccinations, medications, pets>>

\* cancel_appointment without its test of the current status
cancel_appointment_any_status(c, appointment_id) ==
    LET gate  == role_required(c, {"Pet Owner"})
        owner == owner_data(session[c].user_id)
        req(result) == Request("cancel_appointment", c, 0, 0, 0, 0,
                               appointment_id, "-", result)
    IN  /\ UNCHANGED <<owners, veterinarians, users, session, today, inflight>>
        /\ IF gate # "Pass" THEN Reply(Refused(req("-"), gate))
           ELSE IF owner = None THEN Reply(req("ServerError"))
           ELSE IF AppointmentOfOwner(appointments, appointment_id, owner.owner_id) = None
                THEN Reply(req("NotFound"))
           ELSE /\ appointments' = SetStatus(appointments, appointment_id, "Cancelled")
                /\ last' = req("Success")
                /\ UNCHANGED <<vaccinations, medications, pets>>

\* POST /cancel_appointment
cancel_appointment(c, appointment_id) ==
    LET gate  == role_required(c, {"Pet Owner"})
        owner == owner_data(session[c].user_id)
        req(result) == Request("cancel_appointment", c, 0, 0, 0, 0,
                               appointment_id, "-", result)
    IN  /\ UNCHANGED <<owners, veterinarians, users, session, today, inflight>>
        /\ IF gate # "Pass" THEN Reply(Refused(req("-"), gate))
           ELSE IF owner = None
                THEN Reply(req("ServerError"))    \* owner_data["owner_id"] raises TypeError
           ELSE IF AppointmentOfOwner(appointments, appointment_id, owner.owner_id) = None
                THEN Reply(req("NotFound"))
           ELSE IF AppointmentOfOwner(appointments, appointment_id, owner.owner_id).status
                     # "Pending"
                THEN Reply(req("InvalidState"))
           ELSE /\ appointments' = SetStatus(appointments, appointment_id, "Cancelled")
                /\ last' = req("Success")
                /\ UNCHANGED <<vaccinations, medications, pets>>

\* Where the store fails inside a handler's transaction, if anywhere: a
\* mysql.connector.Error raised by the INSERT's or by the UPDATE's execute()
Faults == {"none", "insert", "update"}

\* add_vaccination whose INSERT stays in the store when the UPDATE fails
add_vaccination_no_rollback(c, pet_id, fault) ==
    LET gate == role_required(c, {"Veterinarian"})
        vet  == vet_data(session[c].user_id)
        req(result) == Request("add_vaccination", c, pet_id, 0, 0, 0, 0, "-", result)
        inserted == Append(vaccinations, [pet_id |-> pet_id, vet_id |-> vet.vet_id])
    IN  /\ UNCHANGED <<owners, veterinarians, users, session, today, inflight>>
        /\ IF gate # "Pass" THEN Reply(Refused(req("-"), gate))
           ELSE IF vet = None THEN Reply(req("ServerError"))
           ELSE IF fault = "insert" THEN Reply(req("StoreErrorAtInsert"))
           ELSE /\ Len(vaccinations) + Len(medications) < MaxEntries
                /\ vaccinations' = inserted
                /\ appointments' =
                     IF fault = "update" THEN appointments
                     ELSE CompleteToday(appointments, pet_id, vet.vet_id, today)
                /\ last' = req(IF fault = "update" THEN "StoreErrorAtUpdate" ELSE "Success")
                /\ UNCHANGED <<medications, pets>>

\* POST /add_vaccination. The INSERT and the UPDATE run on one connection
\* (autocommit off) and are committed by the single conn.commit() after both;
\* a mysql.connector.Error from either execute() reaches conn.rollback(), which
\* discards whatever the transaction had written. Both errors are answered
\* with the same flash message; the result names the statement that failed.
add_vaccination(c, pet_id, fault) ==
    LET gate == role_required(c, {"Veterinarian"})
        vet  == vet_data(session[c].user_id)
        req(result) == Request("add_vaccination", c, pet_id, 0, 0, 0, 0, "-", result)
        inserted  == Append(vaccinations, [pet_id |-> pet_id, vet_id |-> vet.vet_id])
        completed == CompleteToday(appointments, pet_id, vet.vet_id, today)
    IN  /\ UNCHANGED <<owners, veterinarians, users, session, today, inflight>>
        /\ IF gate # "Pass" THEN Reply(Refused(req("-"), gate))
           ELSE IF vet = None
                THEN Reply(req("ServerError"))    \* vet_data["vet_id"] raises TypeError
           ELSE IF fault = "insert"
                THEN Reply(req("StoreErrorAtInsert"))    \* rollback of nothing
           ELSE IF fault = "update"
                THEN Reply(req("StoreErrorAtUpdate"))    \* rollback of the INSERT
           ELSE /\ Len(vaccinations) + Len(medications) < MaxEntries
                /\ vaccinations' = inserted
                /\ appointments' = completed
                /\ last' = req("Success")
                /\ UNCHANGED <<medications, pets>>

\* add_medication refusing the entry when no appointment is completed by it
add_medication_requires_appointment(c, pet_id, fault) ==
    LET gate == role_required(c, {"Veterinarian"})
        vet  == vet_data(session[c].user_id)
        req(result) == Request("add_medication", c, pet_id, 0, 0, 0, 0, "-", result)
        inserted  == Append(medications, [pet_id |-> pet_id, vet_id |-> vet.vet_id])
        completed == CompleteToday(appointments, pet_id, vet.vet_id, today)
    IN  /\ UNCHANGED <<owners, veterinarians, users, session, today, inflight>>
        /\ IF gate # "Pass" THEN Reply(Refused(req("-"), gate))
           ELSE IF vet = None THEN Reply(req("ServerError"))
           ELSE IF fault = "insert" THEN Reply(req("StoreErrorAtInsert"))
           ELSE IF fault = "update" THEN Reply(req("StoreErrorAtUpdate"))
           ELSE IF completed = appointments THEN Reply(req("NotFound"))
           ELSE /\ Len(vaccinations) + Len(medications) < MaxEntries
                /\ medications' = inserted
                /\ appointments' = completed
                /\ last' = req("Success")
                /\ UNCHANGED <<vaccinations, pets>>

\* POST /add_medication: the same transaction as add_vaccination, on medications
add_medication(c, pet_id, fault) ==
    LET gate == role_required(c, {"Veterinarian"})
        vet  == vet_data(session[c].user_id)
        req(result) == Request("add_medication", c, pet_id, 0, 0, 0, 0, "-", result)
        inserted  == Append(medications, [pet_id |-> pet_id, vet_id |-> vet.vet_id])
        completed == CompleteToday(appointments, pet_id, vet.vet_id, today)
    IN  /\ UNCHANGED <<owners, veterinarians, users, session, today, inflight>>
        /\ IF gate # "Pass" THEN Reply(Refused(req("-"), gate))
           ELSE IF vet = None
                THEN Reply(req("ServerError"))    \* vet_data["vet_id"] raises TypeError
           ELSE IF fault = "insert"
                THEN Reply(req("StoreErrorAtInsert"))    \* rollback of nothing
           ELSE IF fault = "update"
                THEN Reply(req("StoreErrorAtUpdate"))    \* rollback of the INSERT
           ELSE /\ Len(vaccinations) + Len(medications) < MaxEntries
                /\ medications' = inserted
                /\ appointments' = completed
                /\ last' = req("Success")
                /\ UNCHANGED <<vaccinations, pets>>

\* Midnight passes: CURDATE() moves to the next date
NextDay ==
    /\ today + 1 \in Dates
    /\ today' = today + 1
    /\ last' = Request("midnight", 0, 0, 0, 0, 0, 0, "-", "-")
    /\ UNCHANGED <<appointments, vaccinations, medications, owners, veterinarians, users,
                   pets, session, inflight>>

----------------------------------------------------------------------------
(* Status changes at the grain of their store statements. The SELECT of an  *)
(* appointment is a plain read on the request's own connection and takes no *)
(* lock; the UPDATE names the appointment_id alone and is committed at      *)
(* once. A request that passed its checks stays in flight until its UPDATE. *)

\* POST /cancel_appointment up to its test of the status read by the SELECT
cancel_select(c, appointment_id) ==
    LET gate  == role_required(c, {"Pet Owner"})
        owner == owner_data(session[c].user_id)
        appointment == AppointmentOfOwner(appointments, appointment_id, owner.owner_id)
        req(result) == Request("cancel_appointment", c, 0, 0, 0, 0,
                               appointment_id, "-", result)
    IN  /\ \A r \in inflight : r.client # c
        /\ Cardinality(inflight) < MaxInflight
        /\ UNCHANGED <<appointments, vaccinations, medications, owners, veterinarians, users,
                       pets, session, today>>
        /\ IF gate # "Pass" THEN last' = Refused(req("-"), gate) /\ UNCHANGED inflight
           ELSE IF owner = None THEN last' = req("ServerError") /\ UNCHANGED inflight
           ELSE IF appointment = None THEN last' = req("NotFound") /\ UNCHANGED inflight
           ELSE IF appointment.status # "Pending"
                THEN last' = req("InvalidState") /\ UNCHANGED inflight
           ELSE /\ inflight' = inflight \cup
                      {[op |-> "cancel_appointment", client |-> c,
                        appointment_id |-> appointment_id, status |-> "Cancelled"]}
                /\ last' = req("Pending")

\* POST /update_appointment_status up to its test of the row read by the SELECT
status_select(c, appointment_id, status) ==
    LET gate == role_required(c, {"Veterinarian"})
        vet  == vet_data(session[c].user_id)
        req(result) == Request("update_appointment_status", c, 0, 0, 0, 0,
                               appointment_id, status, result)
    IN  /\ \A r \in inflight : r.client # c
        /\ Cardinality(inflight) < MaxInflight
        /\ UNCHANGED <<appointments, vaccinations, medications, owners, veterinarians, users,
                       pets, session, today>>
        /\ IF gate # "Pass" THEN last' = Refused(req("-"), gate) /\ UNCHANGED inflight
           ELSE IF vet = None THEN last' = req("ServerError") /\ UNCHANGED inflight
           ELSE IF AppointmentOfVet(appointments, appointment_id, vet.vet_id) = None
                THEN last' = req("NotFound") /\ UNCHANGED inflight
           ELSE /\ inflight' = inflight \cup
                      {[op |-> "update_appointment_status", client |-> c,
                        appointment_id |-> appointment_id, status |-> status]}
                /\ last' = req("Found")

\* The rest of either request in flight: UPDATE appointments SET status = ...
\* WHERE appointment_id = %s, and conn.commit()
status_update(r) ==
    /\ r \in inflight
    /\ inflight' = inflight \ {r}
    /\ appointments' = SetStatus(appointments, r.appointment_id, r.status)
    /\ last' = Request(r.op, r.client, 0, 0, 0, 0, r.appointment_id,
                       IF r.op = "cancel_appointment" THEN "-" ELSE r.status, "Success")
    /\ UNCHANGED <<vaccinations, medications, pets, owners, veterinarians, users,
                   session, today>>

----------------------------------------------------------------------------
(* Deletions by the Admin *)

\* What the store fails on in a deletion, if anything: a mysql.connector.Error
\* raised by the DELETE's execute()
DeleteFaults == {"none", "delete"}

\* The rows of another table that reference a deleted pet: appointments are
\* never deleted and medical entries have no delete path, so they stay
KeepReferencing(rows, pet_id) == rows

\* DELETE /manage_delete_pet
manage_delete_pet(c, pet_id, fault) ==
    LET gate == role_required(c, {"Admin"})
        req(result) == Request("manage_delete_pet", c, pet_id, 0, 0, 0, 0, "-", result)
    IN  /\ UNCHANGED <<owners, veterinarians, users, session, today, inflight>>
        /\ IF gate # "Pass" THEN Reply(Refused(req("-"), gate))
           ELSE IF fault = "delete"
                THEN Reply(req("StoreError"))    \* conn.rollback(), 500
           ELSE /\ pets' = {p \in pets : p.pet_id # pet_id}
                /\ appointments' = KeepReferencing(appointments, pet_id)
                /\ vaccinations' = KeepReferencing(vaccinations, pet_id)
                /\ medications' = KeepReferencing(medications, pet_id)
                /\ last' = req("Success")

\* DELETE /manage_delete_users: UPDATE users SET vchr_status = 'D' WHERE
\* user_id = %s, the row of the JSON field user_id
manage_delete_users(c, user_id) ==
    LET gate == role_required(c, {"Admin"})
        req(result) == Request("manage_delete_users", c, 0, 0, 0, 0, 0, "-", result)
    IN  /\ UNCHANGED <<owners, veterinarians, session, today, inflight>>
        /\ UNCHANGED <<appointments, vaccinations, medications, pets>>
        /\ IF gate # "Pass"
           THEN last' = Refused(req("-"), gate) /\ UNCHANGED users
           ELSE /\ users' = {IF u.user_id = user_id
                             THEN [u EXCEPT !.vchr_status = "D"] ELSE u : u \in users}
                /\ last' = req("Success")

----------------------------------------------------------------------------
(* Accounts and sessions. An email address is a number; the users of Init   *)
(* have the address that equals their user_id.                              *)

\* cursor.lastrowid of an INSERT into a table whose keys so far are ids
NextId(ids) == IF ids = {} THEN 1 ELSE (CHOOSE m \in ids : \A i \in ids : i <= m) + 1

\* INSERT INTO users (...) and, for a Veterinarian or a Pet Owner, the INSERT
\* of the role's profile row for cursor.lastrowid, as register and
\* manage_add_users both do; committed together
InsertUser(email, password, role) ==
    LET user_id == NextId({u.user_id : u \in users})
    IN  /\ user_id \in NewUserIds
        /\ users' = users \cup {[user_id |-> user_id, email |-> email,
                                 password |-> password, role |-> role,
                                 vchr_status |-> DefaultUserStatus]}
        /\ owners' = IF role = "Pet Owner"
                     THEN owners \cup {[owner_id |-> NextId({o.owner_id : o \in owners}),
                                        user_id |-> user_id]}
                     ELSE owners
        /\ veterinarians' =
             IF role = "Veterinarian"
             THEN veterinarians \cup {[vet_id |-> NextId({v.vet_id : v \in veterinarians}),
                                       user_id |-> user_id]}
             ELSE veterinarians

\* POST /register: not behind role_required. confirmed says whether the
\* form's confirm_password equals its password.
register(c, email, password, role, confirmed) ==
    LET req(result) == [Request("register", c, 0, 0, 0, 0, 0, "-", result)
                          EXCEPT !.email = email]
    IN  /\ UNCHANGED <<appointments, vaccinations, medications, pets, session, today,
                       inflight>>
        /\ IF ~confirmed
           THEN last' = req("Invalid") /\ UNCHANGED <<users, owners, veterinarians>>
           ELSE IF \E u \in users : u.email = email    \* SELECT * FROM users WHERE email = %s
                THEN last' = req("AlreadyRegistered")
                     /\ UNCHANGED <<users, owners, veterinarians>>
           ELSE InsertUser(email, password, role) /\ last' = req("Success")

\* POST /manage_add_user: the INSERT with no SELECT before it. The form's
\* status goes to the column status, which no query of the program reads.
manage_add_users(c, email, password, role) ==
    LET gate == role_required(c, {"Admin"})
        req(result) == [Request("manage_add_users", c, 0, 0, 0, 0, 0, "-", result)
                          EXCEPT !.email = email]
    IN  /\ UNCHANGED <<appointments, vaccinations, medications, pets, session, today,
                       inflight>>
        /\ IF gate # "Pass"
           THEN last' = [Refused(req("-"), gate) EXCEPT !.email = 0]
                /\ UNCHANGED <<users, owners, veterinarians>>
           ELSE InsertUser(email, password, role) /\ last' = req("Success")

\* POST /login: SELECT * FROM users WHERE email = %s; fetchone(), then
\* check_password_hash. user is the row fetched, any row with the address.
login(c, email, password) ==
    LET req(result) == [Request("login", c, 0, 0, 0, 0, 0, "-", result)
                          EXCEPT !.email = email]
    IN  /\ UNCHANGED <<appointments, vaccinations, medications, pets, owners,
                       veterinarians, users, today, inflight>>
        /\ IF ~\E u \in users : u.email = email
           THEN last' = req("InvalidCredentials") /\ UNCHANGED session
           ELSE \E user \in {u \in users : u.email = email} :
                  IF user.password = password
                  THEN /\ session' = [session EXCEPT ![c] = [user_id |-> user.user_id,
                                                             role |-> user.role]]
                       /\ last' = req("Success")
                  ELSE last' = req("InvalidCredentials") /\ UNCHANGED session

\* GET /logout: session.clear()
logout(c) ==
    /\ session' = [session EXCEPT ![c] = NoSession]
    /\ last' = Request("logout", c, 0, 0, 0, 0, 0, "-", "Success")
    /\ UNCHANGED <<appointments, vaccinations, medications, pets, owners,
                   veterinarians, users, today, inflight>>

\* DELETE /delete_account: UPDATE users SET vchr_status = 'D' for the session's
\* user, then session.clear()
delete_account(c) ==
    LET gate == role_required(c, {"Admin", "Pet Owner", "Veterinarian"})
        req(result) == Request("delete_account", c, 0, 0, 0, 0, 0, "-", result)
    IN  /\ UNCHANGED <<appointments, vaccinations, medications, pets, owners,
                       veterinarians, today, inflight>>
        /\ IF gate # "Pass"
           THEN last' = Refused(req("-"), gate) /\ UNCHANGED <<users, session>>
           ELSE /\ users' = {IF u.user_id = session[c].user_id
                             THEN [u EXCEPT !.vchr_status = "D"] ELSE u : u \in users}
                /\ session' = [session EXCEPT ![c] = NoSession]
                /\ last' = req("Success")

----------------------------------------------------------------------------
(* Profile updates at the grain of their store statements. get_conn opens  *)
(* a connection that does not autocommit, so a request's statements are    *)
(* one transaction ended by conn.commit(). Both handlers start with        *)
(* UPDATE users ... WHERE user_id = %s: a transactional store gives the    *)
(* transaction the exclusive lock of that users row until it commits, and  *)
(* the same UPDATE of another transaction waits for it.                    *)

ProfileOps == {"update_profile", "manage_edit_users"}

RowLocked_never(user_id) == FALSE

\* Some transaction in flight has updated the users row and not committed
RowLocked(user_id) ==
    \E r \in inflight : r.op \in ProfileOps /\ r.user_id = user_id

\* What the first statement leaves in flight; found is set by the SELECT
ProfileRequest(op, c, user_id, role) ==
    [op |-> op, client |-> c, user_id |-> user_id, role |-> role,
     pc |-> "updated", found |-> FALSE]

\* POST /update_profile up to its UPDATE users, for the session's user and
\* the session's role
update_profile_begin(c) ==
    LET gate == role_required(c, {"Admin", "Pet Owner", "Veterinarian"})
        req(result) == Request("update_profile", c, 0, 0, 0, 0, 0, "-", result)
    IN  /\ \A r \in inflight : r.client # c
        /\ Cardinality(inflight) < MaxInflight
        /\ UNCHANGED <<appointments, vaccinations, medications, owners, veterinarians, users,
                       pets, session, today>>
        /\ IF gate # "Pass" THEN last' = Refused(req("-"), gate) /\ UNCHANGED inflight
           ELSE /\ ~RowLocked(session[c].user_id)
                /\ inflight' = inflight \cup
                      {ProfileRequest("update_profile", c, session[c].user_id,
                                      session[c].role)}
                /\ last' = req("Updated")

\* POST /manage_edit_user up to its UPDATE users, for the form's user_id and
\* the form's role; the new role is visible to others at the commit
manage_edit_users_begin(c, user_id, role) ==
    LET gate == role_required(c, {"Admin"})
        req(result) == Request("manage_edit_users", c, 0, 0, 0, 0, 0, "-", result)
    IN  /\ \A r \in inflight : r.client # c
        /\ Cardinality(inflight) < MaxInflight
        /\ UNCHANGED <<appointments, vaccinations, medications, owners, veterinarians, users,
                       pets, session, today>>
        /\ IF gate # "Pass" THEN last' = Refused(req("-"), gate) /\ UNCHANGED inflight
           ELSE /\ ~RowLocked(user_id)
                /\ inflight' = inflight \cup
                      {ProfileRequest("manage_edit_users", c, user_id, role)}
                /\ last' = req("Updated")

\* SELECT * FROM owners (veterinarians) WHERE user_id = %s; fetchone(): a
\* plain read of what is committed
profile_select(r) ==
    /\ r \in inflight
    /\ r.op \in ProfileOps
    /\ r.pc = "updated"
    /\ LET found == IF r.role = "Pet Owner"
                    THEN \E o \in owners : o.user_id = r.user_id
                    ELSE IF r.role = "Veterinarian"
                    THEN \E v \in veterinarians : v.user_id = r.user_id
                    ELSE FALSE
       IN  inflight' = (inflight \ {r}) \cup
                          {[r EXCEPT !.pc = "selected", !.found = found]}
    /\ last' = Request(r.op, r.client, 0, 0, 0, 0, 0, "-",
                       IF r.role = "Admin" THEN "NoProfile" ELSE "Selected")
    /\ UNCHANGED <<appointments, vaccinations, medications, owners, veterinarians, users,
                   pets, session, today>>

\* The rest of the request: UPDATE of the profile row that was found (its
\* contact fields are no column of the model) or INSERT of a new one, then
\* conn.commit()
profile_write(r) ==
    /\ r \in inflight
    /\ r.op \in ProfileOps
    /\ r.pc = "selected"
    /\ inflight' = inflight \ {r}
    /\ owners' = IF r.role = "Pet Owner" /\ ~r.found
                 THEN owners \cup {[owner_id |-> NextId({o.owner_id : o \in owners}),
                                    user_id |-> r.user_id]}
                 ELSE owners
    /\ veterinarians' =
         IF r.role = "Veterinarian" /\ ~r.found
         THEN veterinarians \cup {[vet_id |-> NextId({v.vet_id : v \in veterinarians}),
                                   user_id |-> r.user_id]}
         ELSE veterinarians
    /\ users' = IF r.op = "manage_edit_users"
                THEN {IF u.user_id = r.user_id THEN [u EXCEPT !.role = r.role] ELSE u :
                        u \in users}
                ELSE users
    /\ last' = Request(r.op, r.client, 0, 0, 0, 0, 0, "-", "Success")
    /\ UNCHANGED <<appointments, vaccinations, medications, pets, session, today>>

----------------------------------------------------------------------------
(* Listings. A listing changes nothing in the store; the rows it hands to  *)
(* its template are recorded in last.rows, each as its table and primary   *)
(* key. ORDER BY is not modelled. The LIMIT 10 of the veterinarian's       *)
(* recent activities and the LIMIT 5 of the owner's reminders exceed the   *)
(* rows the bounded medical tables hold.                                   *)

Row(table, id) == [table |-> table, id |-> id]

RowsOf(table, ids) == {Row(table, i) : i \in ids}

\* LIMIT 3 of the Admin dashboard's activity queries
ActivityLimit == 3

\* ORDER BY created_at DESC LIMIT n over rows whose keys grow with created_at
Latest(ids, n) == {i \in ids : Cardinality({j \in ids : j > i}) < n}

\* JOIN pets p ON x.pet_id = p.pet_id
JoinsPet(pet_id) == \E p \in pets : p.pet_id = pet_id

\* JOIN owners o ON x.owner_id = o.owner_id JOIN users u ON o.user_id = u.user_id
JoinsOwner(owner_id) ==
    \E o \in owners, u \in users : o.owner_id = owner_id /\ u.user_id = o.user_id

\* JOIN veterinarians v ON x.vet_id = v.vet_id JOIN users u ON v.user_id = u.user_id
JoinsVet(vet_id) ==
    \E v \in veterinarians, u \in users : v.vet_id = vet_id /\ u.user_id = v.user_id

\* JOIN pets p ON x.pet_id = p.pet_id JOIN owners o_tbl ON p.owner_id =
\* o_tbl.owner_id JOIN users o ON o_tbl.user_id = o.user_id
JoinsPetAndOwner(pet_id) ==
    \E p \in pets : p.pet_id = pet_id /\ JoinsOwner(p.owner_id)

\* JOIN pets p ON x.pet_id = p.pet_id JOIN owners o ON p.owner_id = o.owner_id
\* WHERE o.user_id = %s
PetOfUser(pet_id, user_id) ==
    \E p \in pets, o \in owners :
        p.pet_id = pet_id /\ o.owner_id = p.owner_id /\ o.user_id = user_id

\* view_appointments, Admin: every appointment that joins its pet, its owner
\* and its veterinarian
AdminAppointments ==
    RowsOf("appointments",
           {i \in DOMAIN appointments : /\ JoinsPet(appointments[i].pet_id)
                                        /\ JoinsOwner(appointments[i].owner_id)
                                        /\ JoinsVet(appointments[i].vet_id)})

\* The Veterinarian's query of view_appointments without WHERE a.vet_id = %s
VetAppointments_any_vet(vet_id) ==
    RowsOf("appointments",
           {i \in DOMAIN appointments : /\ JoinsPet(appointments[i].pet_id)
                                        /\ JoinsOwner(appointments[i].owner_id)})

\* view_appointments, Veterinarian with a profile: WHERE a.vet_id = %s
VetAppointments(vet_id) ==
    RowsOf("appointments",
           {i \in DOMAIN appointments : /\ appointments[i].vet_id = vet_id
                                        /\ JoinsPet(appointments[i].pet_id)
                                        /\ JoinsOwner(appointments[i].owner_id)})

\* view_appointments, Pet Owner with a profile: WHERE a.owner_id = %s
OwnerAppointments(owner_id) ==
    RowsOf("appointments",
           {i \in DOMAIN appointments : /\ appointments[i].owner_id = owner_id
                                        /\ JoinsPet(appointments[i].pet_id)
                                        /\ JoinsVet(appointments[i].vet_id)})

\* The Admin's query of view_vaccinations, view_medications and admin_medical
\* over one medical table
AdminEntries(table, entries) ==
    RowsOf(table, {i \in DOMAIN entries : /\ JoinsPetAndOwner(entries[i].pet_id)
                                          /\ JoinsVet(entries[i].vet_id)})

\* The Veterinarian's query of view_vaccinations and view_medications over one
\* medical table: WHERE v.vet_id = %s
VetEntries(table, entries, vet_id) ==
    RowsOf(table, {i \in DOMAIN entries : /\ entries[i].vet_id = vet_id
                                          /\ JoinsPetAndOwner(entries[i].pet_id)})

\* pet_medical: SELECT * FROM vaccinations WHERE pet_id = %s, and the same on
\* medications
PetEntries(table, entries, pet_id) ==
    RowsOf(table, {i \in DOMAIN entries : entries[i].pet_id = pet_id})

\* manage_pets, Admin: pets LEFT JOIN owners LEFT JOIN users keeps every pet
AllPets == RowsOf("pets", {p.pet_id : p \in pets})

\* manage_pets and the dashboard, Pet Owner: WHERE owr.user_id = %s
OwnerPets(user_id) ==
    RowsOf("pets", {p.pet_id : p \in {q \in pets : PetOfUser(q.pet_id, user_id)}})

\* Dashboard, Veterinarian with a profile: today's appointments
VetTodayAppointments(vet_id) ==
    RowsOf("appointments",
           {i \in DOMAIN appointments :
               /\ appointments[i].vet_id = vet_id
               /\ DateOf(appointments[i].appointment_date) = today
               /\ appointments[i].status # "Cancelled"
               /\ JoinsPet(appointments[i].pet_id)
               /\ JoinsOwner(appointments[i].owner_id)})

\* Dashboard, Veterinarian with a profile: recent activities of one table
VetRecentActivities(table, entries, vet_id) ==
    RowsOf(table, {i \in DOMAIN entries : /\ entries[i].vet_id = vet_id
                                          /\ JoinsPet(entries[i].pet_id)})

\* Dashboard, Pet Owner: reminders of one table. The queries also test the
\* entry's end date or date given against CURDATE(); entries carry no dates
\* here, so these are the rows that test can still remove some of.
OwnerReminders(table, entries, user_id) ==
    RowsOf(table, {i \in DOMAIN entries : PetOfUser(entries[i].pet_id, user_id)})

\* Dashboard, Admin: the three activity queries
AdminRecentActivities ==
    RowsOf("users", Latest({u.user_id : u \in {w \in users : w.vchr_status = "A"}},
                           ActivityLimit))
    \cup RowsOf("pets", Latest({p.pet_id : p \in pets}, ActivityLimit))
    \cup RowsOf("appointments",
                Latest({i \in DOMAIN appointments : JoinsPet(appointments[i].pet_id)},
                       ActivityLimit))

\* A listing's answer: the rows, and no change to any table
Listed(r, rows) ==
    /\ last' = [r EXCEPT !.result = "Listed", !.rows = rows]
    /\ UNCHANGED <<appointments, vaccinations, medications, pets>>

\* GET /appointments
view_appointments(c) ==
    LET gate  == role_required(c, {"Admin", "Veterinarian", "Pet Owner"})
        vet   == vet_data(session[c].user_id)
        owner == owner_data(session[c].user_id)
        req   == Request("view_appointments", c, 0, 0, 0, 0, 0, "-", "-")
    IN  /\ UNCHANGED <<owners, veterinarians, users, session, today, inflight>>
        /\ IF gate # "Pass" THEN Reply(Refused(req, gate))
           ELSE IF session[c].role = "Admin" THEN Listed(req, AdminAppointments)
           ELSE IF session[c].role = "Veterinarian"
                THEN Listed(req, IF vet = None THEN {} ELSE VetAppointments(vet.vet_id))
           ELSE Listed(req, IF owner = None THEN {}
                            ELSE OwnerAppointments(owner.owner_id))

\* view_vaccinations answering a Veterinarian without a profile as it answers
\* the Admin
view_vaccinations_all_without_profile(c) ==
    LET gate == role_required(c, {"Admin", "Veterinarian"})
        vet  == vet_data(session[c].user_id)
        req  == Request("view_vaccinations", c, 0, 0, 0, 0, 0, "-", "-")
    IN  /\ UNCHANGED <<owners, veterinarians, users, session, today, inflight>>
        /\ IF gate # "Pass" THEN Reply(Refused(req, gate))
           ELSE IF session[c].role = "Admin" \/ vet = None
                THEN Listed(req, AdminEntries("vaccinations", vaccinations))
           ELSE Listed(req, VetEntries("vaccinations", vaccinations, vet.vet_id))

\* GET /vaccinations
view_vaccinations(c) ==
    LET gate == role_required(c, {"Admin", "Veterinarian"})
        vet  == vet_data(session[c].user_id)
        req  == Request("view_vaccinations", c, 0, 0, 0, 0, 0, "-", "-")
    IN  /\ UNCHANGED <<owners, veterinarians, users, session, today, inflight>>
        /\ IF gate # "Pass" THEN Reply(Refused(req, gate))
           ELSE IF session[c].role = "Admin"
                THEN Listed(req, AdminEntries("vaccinations", vaccinations))
           ELSE Listed(req, IF vet = None THEN {}    \* WHERE 1=0
                            ELSE VetEntries("vaccinations", vaccinations, vet.vet_id))

\* GET /medications
view_medications(c) ==
    LET gate == role_required(c, {"Admin", "Veterinarian"})
        vet  == vet_data(session[c].user_id)
        req  == Request("view_medications", c, 0, 0, 0, 0, 0, "-", "-")
    IN  /\ UNCHANGED <<owners, veterinarians, users, session, today, inflight>>
        /\ IF gate # "Pass" THEN Reply(Refused(req, gate))
           ELSE IF session[c].role = "Admin"
                THEN Listed(req, AdminEntries("medications", medications))
           ELSE Listed(req, IF vet = None THEN {}    \* WHERE 1=0
                            ELSE VetEntries("medications", medications, vet.vet_id))

\* GET /admin_medical
admin_medical(c) ==
    LET gate == role_required(c, {"Admin"})
        req  == Request("admin_medical", c, 0, 0, 0, 0, 0, "-", "-")
    IN  /\ UNCHANGED <<owners, veterinarians, users, session, today, inflight>>
        /\ IF gate # "Pass" THEN Reply(Refused(req, gate))
           ELSE Listed(req, AdminEntries("vaccinations", vaccinations)
                            \cup AdminEntries("medications", medications))

\* GET /pet_medical/<pet_id>: the pet's row and its entries
pet_medical(c, pet_id) ==
    LET gate == role_required(c, {"Veterinarian"})
        req  == Request("pet_medical", c, pet_id, 0, 0, 0, 0, "-", "-")
    IN  /\ UNCHANGED <<owners, veterinarians, users, session, today, inflight>>
        /\ IF gate # "Pass" THEN Reply(Refused(req, gate))
           ELSE Listed(req, RowsOf("pets", {p.pet_id : p \in {q \in pets : q.pet_id = pet_id}})
                            \cup PetEntries("vaccinations", vaccinations, pet_id)
                            \cup PetEntries("medications", medications, pet_id))

\* GET /managepets
manage_pets(c) ==
    LET gate == role_required(c, {"Admin", "Pet Owner"})
        req  == Request("manage_pets", c, 0, 0, 0, 0, 0, "-", "-")
    IN  /\ UNCHANGED <<owners, veterinarians, users, session, today, inflight>>
        /\ IF gate # "Pass" THEN Reply(Refused(req, gate))
           ELSE IF session[c].role = "Pet Owner"
                THEN Listed(req, OwnerPets(session[c].user_id))
           ELSE Listed(req, AllPets)

\* GET /: the dashboard of the caller's role
homePage(c) ==
    LET gate == role_required(c, {"Admin", "Pet Owner", "Veterinarian"})
        vet  == vet_data(session[c].user_id)
        uid  == session[c].user_id
        req  == Request("homePage", c, 0, 0, 0, 0, 0, "-", "-")
    IN  /\ UNCHANGED <<owners, veterinarians, users, session, today, inflight>>
        /\ IF gate # "Pass" THEN Reply(Refused(req, gate))
           ELSE IF session[c].role = "Admin" THEN Listed(req, AdminRecentActivities)
           ELSE IF session[c].role = "Veterinarian"
                THEN Listed(req,
                            IF vet = None THEN {}
                            ELSE VetTodayAppointments(vet.vet_id)
                                 \cup VetRecentActivities("vaccinations", vaccinations,
                                                          vet.vet_id)
                                 \cup VetRecentActivities("medications", medications,
                                                          vet.vet_id))
           ELSE Listed(req, OwnerPets(uid)
                            \cup OwnerReminders("medications", medications, uid)
                            \cup OwnerReminders("vaccinations", vaccinations, uid))

----------------------------------------------------------------------------
(* Specifications. Each one runs the handlers above on the requests that   *)
(* its claims are about. Clients 2 and 3 are the pet owners with owner     *)
(* profiles 1 and 2, clients 4 and 5 the veterinarians with profiles 1 and *)
(* 2, clients 6 and 7 a pet owner and a veterinarian whose accounts have   *)
(* no profile row (the handlers' "if owner_data" and "if vet_data" tests   *)
(* provide for them), client 1 the admin, client 0 a visitor who never     *)
(* logged in.                                                              *)

SlotTimes == {0, 30, 31}         \* 00:00, 00:30, 00:31

\* The schedule of two veterinarians: owners book on one date, the owner with
\* a profile cancels, and veterinarian 1 updates statuses
Next ==
    \/ \E c \in {2, 4, 6}, v \in VetIds, t \in SlotTimes :
          book_appointment(c, 1, v, 0, t)
    \/ \E c \in {4}, a \in ApptIds, st \in StatusInputs :
          update_appointment_status(c, a, st)
    \/ \E c \in {2}, a \in ApptIds : cancel_appointment(c, a)

Spec == Init /\ [][Next]_vars

\* Bookings with every field of the form varying: both owners with a profile
\* and the owner without one submit one of four forms, and the owners cancel.
\* The first two forms are 30 minutes apart across midnight.
BookingForms ==
    {[pet_id |-> 1, vet_id |-> 1, date |-> 0, time |-> 1410],
     [pet_id |-> 2, vet_id |-> 1, date |-> 1, time |-> 0],
     [pet_id |-> 2, vet_id |-> 2, date |-> 1, time |-> 1410],
     [pet_id |-> 1, vet_id |-> 2, date |-> 0, time |-> 0]}

NextInsert ==
    \/ \E c \in {2, 3, 6}, f \in BookingForms :
          book_appointment(c, f.pet_id, f.vet_id, f.date, f.time)
    \/ \E c \in {2, 3}, a \in ApptIds : cancel_appointment(c, a)

SpecInsert == Init /\ [][NextInsert]_vars

\* The status of appointments: both owners book the one slot of either
\* veterinarian, owners cancel and veterinarians update statuses
NextStatus ==
    \/ \E c \in {2, 3}, v \in VetIds : book_appointment(c, 1, v, 0, 0)
    \/ \E c \in {4, 5, 7}, a \in ApptIds, st \in StatusInputs :
          update_appointment_status(c, a, st)
    \/ \E c \in {2, 3}, a \in ApptIds : cancel_appointment(c, a)

SpecStatus == Init /\ [][NextStatus]_vars

\* The visits the medical specification books: two for pet 1 with
\* veterinarian 1 on date 0, one with veterinarian 2 and one for pet 2
MedForms ==
    { [c |-> 2, pet_id |-> 1, vet_id |-> 1, date |-> 0, time |-> 0],
      [c |-> 2, pet_id |-> 1, vet_id |-> 1, date |-> 0, time |-> 60],
      [c |-> 2, pet_id |-> 1, vet_id |-> 2, date |-> 0, time |-> 0],
      [c |-> 3, pet_id |-> 2, vet_id |-> 1, date |-> 0, time |-> 120] }

\* Medical entries and their same-day completion: bookings of MedForms, the
\* veterinarian confirming, the owner cancelling, entries written for pet 1
\* with and without a store failure, and midnight
NextMed ==
    \/ \E f \in MedForms : book_appointment(f.c, f.pet_id, f.vet_id, f.date, f.time)
    \/ \E a \in ApptIds : update_appointment_status(4, a, "Confirmed")
    \/ \E a \in ApptIds : cancel_appointment(2, a)
    \/ \E c \in {4, 7}, ft \in Faults : add_vaccination(c, 1, ft)
    \/ \E ft \in Faults : add_medication(4, 1, ft)
    \/ NextDay

SpecMed == Init /\ [][NextMed]_vars

\* The visits the listing specification books
ViewForms ==
    { [c |-> 2, pet_id |-> 1, vet_id |-> 1, date |-> 0, time |-> 0],
      [c |-> 3, pet_id |-> 2, vet_id |-> 2, date |-> 0, time |-> 0] }

\* Listings: bookings of ViewForms and entries for pets that exist, the Admin
\* deleting pets and users, and every listing called by the Admin, by owners
\* and veterinarians with a profile and by those without one
NextView ==
    \/ \E f \in ViewForms :
         /\ JoinsPet(f.pet_id)
         /\ book_appointment(f.c, f.pet_id, f.vet_id, f.date, f.time)
    \/ \E c \in {4, 5} : JoinsPet(1) /\ add_vaccination(c, 1, "none")
    \/ JoinsPet(1) /\ add_medication(4, 1, "none")
    \/ \E p \in PetIds, ft \in DeleteFaults : manage_delete_pet(1, p, ft)
    \/ \E u \in {2, 4} : manage_delete_users(1, u)
    \/ \E c \in {1, 2, 3, 4, 5, 6, 7} : view_appointments(c)
    \/ \E c \in {1, 4, 5, 7} : view_vaccinations(c)
    \/ \E c \in {1, 4, 5, 7} : view_medications(c)
    \/ \E c \in {1, 2, 4, 5, 6, 7} : homePage(c)
    \/ \E c \in {1, 2, 6, 7} : manage_pets(c)
    \/ \E c \in {4, 5, 7} : pet_medical(c, 1)
    \/ admin_medical(1)

SpecView == Init /\ [][NextView]_vars

\* Accounts: registrations and users added by the Admin with an address in
\* use and with a new one, soft deletions by the Admin and by the user,
\* logins with the right and a wrong password, and logouts
NextUsers ==
    \/ \E e \in Emails, cf \in BOOLEAN : register(0, e, "p", "Pet Owner", cf)
    \/ \E c \in {1, 2}, e \in Emails : manage_add_users(c, e, "p", "Veterinarian")
    \/ \E u \in {2, 8} : manage_delete_users(1, u)
    \/ \E c \in {0, 2} : delete_account(c)
    \/ \E c \in {0, 2}, e \in Emails, pw \in Passwords : login(c, e, pw)
    \/ logout(2)

SpecUsers == Init /\ [][NextUsers]_vars

\* The role gate: every protected operation called without a session, by the
\* Admin, by an owner and by a veterinarian
NextGate ==
    \E c \in {0, 1, 2, 4} :
        \/ book_appointment(c, 1, 1, 0, 0)
        \/ update_appointment_status(c, 1, "Confirmed")
        \/ cancel_appointment(c, 1)
        \/ add_vaccination(c, 1, "none")
        \/ add_medication(c, 1, "none")
        \/ manage_delete_pet(c, 2, "none")
        \/ manage_delete_users(c, 3)
        \/ view_appointments(c)
        \/ view_vaccinations(c)
        \/ view_medications(c)
        \/ admin_medical(c)
        \/ pet_medical(c, 1)
        \/ manage_pets(c)
        \/ homePage(c)

SpecGate == Init /\ [][NextGate]_vars

\* Callers without a profile row: owner 6 and veterinarian 7 post what owner
\* 2 and veterinarian 4 post
NextNoProfile ==
    \/ \E c \in {2, 6}, t \in {0, 60} : book_appointment(c, 1, 1, 0, t)
    \/ \E c \in {4, 7}, a \in ApptIds : update_appointment_status(c, a, "Confirmed")
    \/ \E c \in {2, 6}, a \in ApptIds : cancel_appointment(c, a)
    \/ \E c \in {4, 7} : add_vaccination(c, 1, "none")
    \/ \E c \in {4, 7} : add_medication(c, 1, "none")

SpecNoProfile == Init /\ [][NextNoProfile]_vars

\* Profile updates: users 6 and 7, who have no profile row, update their own
\* profile while the Admin edits them under either role
NextProfile ==
    \/ \E c \in {0, 6, 7} : update_profile_begin(c)
    \/ \E c \in {1, 2}, u \in {6, 7}, role \in {"Pet Owner", "Veterinarian"} :
          manage_edit_users_begin(c, u, role)
    \/ \E r \in inflight : profile_select(r)
    \/ \E r \in inflight : profile_write(r)

SpecProfile == Init /\ [][NextProfile]_vars

\* Every operation that writes an appointment row or deletes what one
\* references
NextFrame ==
    \/ \E t \in {0, 60} : book_appointment(2, 1, 1, 0, t)
    \/ \E a \in ApptIds : update_appointment_status(4, a, "Confirmed")
    \/ \E a \in ApptIds : cancel_appointment(2, a)
    \/ add_vaccination(4, 1, "none")
    \/ add_medication(4, 1, "none")
    \/ manage_delete_pet(1, 1, "none")

SpecFrame == Init /\ [][NextFrame]_vars

\* Status values: the veterinarian posts the four statuses and a string that
\* is none of them
NextFreeStatus ==
    \/ \E t \in {0, 60} : book_appointment(2, 1, 1, 0, t)
    \/ \E a \in ApptIds, st \in FreeStatusInputs : update_appointment_status(4, a, st)
    \/ \E a \in ApptIds : cancel_appointment(2, a)

SpecFreeStatus == Init /\ [][NextFreeStatus]_vars

\* Overlapping status changes: the owner's cancellation and the assigned
\* veterinarian's update of one appointment interleave at their store
\* statements; the veterinarian moves the appointment forward only
NextRace ==
    \/ \E t \in {0, 60} : book_appointment(2, 1, 1, 0, t)
    \/ \E a \in ApptIds : cancel_select(2, a)
    \/ \E a \in ApptIds, st \in {"Confirmed", "Completed"} : status_select(4, a, st)
    \/ \E r \in inflight : status_update(r)

SpecRace == Init /\ [][NextRace]_vars

\* Overlapping bookings: the requests of both owners interleave at their
\* store statements, and the owners cancel
NextConc ==
    \/ \E c \in {2, 3}, v \in VetIds, t \in SlotTimes : book_select(c, 1, v, 0, t)
    \/ \E r \in inflight : book_insert(r)
    \/ \E c \in {2, 3}, a \in ApptIds : cancel_appointment(c, a)

SpecConc == Init /\ [][NextConc]_vars

----------------------------------------------------------------------------
(* Claims about the slot conflict check, under Spec *)

AbsDiff(a, b) == IF a >= b THEN a - b ELSE b - a

\* The DATETIME the latest request asked for
AskedTime(r) == r.date * 1440 + r.time

\* The client holds a session of a Pet Owner who has an owner profile row
HasOwnerProfile(c) ==
    /\ session[c] # NoSession
    /\ session[c].role = "Pet Owner"
    /\ \E o \in owners : o.user_id = session[c].user_id

\* The appointments of veterinarian v within 30 minutes of time t
InWindow(appts, v, t) ==
    {i \in DOMAIN appts : appts[i].vet_id = v /\ AbsDiff(appts[i].appointment_date, t) <= 30}

BookingStep == last'.op = "book_appointment" /\ last'.result \notin {"Unauthenticated", "Forbidden"}

\* C1: a booking for veterinarian V at time T' answers Conflict exactly when
\* some appointment of V that is not Cancelled lies within 30 minutes of T',
\* the boundary included; otherwise an owner with a profile is answered
\* Available
C1_ConflictIffWithin30 ==
    [][BookingStep =>
        LET blocked == \E i \in InWindow(appointments, last'.vet_id, AskedTime(last')) :
                          appointments[i].status # "Cancelled"
        IN  /\ (last'.result = "Conflict") <=> blocked
            /\ (~blocked /\ HasOwnerProfile(last'.client)) => last'.result = "Available"]_vars

\* C1 witness: a booking exactly 30 minutes from a live appointment of the same
\* veterinarian was answered Conflict
C1_Witness ==
    /\ last.op = "book_appointment"
    /\ last.result = "Conflict"
    /\ \E i \in DOMAIN appointments :
          /\ appointments[i].vet_id = last.vet_id
          /\ appointments[i].status # "Cancelled"
          /\ AbsDiff(appointments[i].appointment_date, AskedTime(last)) = 30
    /\ \A i \in DOMAIN appointments :
          (appointments[i].vet_id = last.vet_id /\ appointments[i].status # "Cancelled")
             => AbsDiff(appointments[i].appointment_date, AskedTime(last)) >= 30

\* C2: no two appointments of one veterinarian that are both not Cancelled lie
\* within 30 minutes of each other
C2_NoTwoLiveWithin30 ==
    \A i, j \in DOMAIN appointments :
        (/\ i # j
         /\ appointments[i].vet_id = appointments[j].vet_id
         /\ appointments[i].status # "Cancelled"
         /\ appointments[j].status # "Cancelled")
        => AbsDiff(appointments[i].appointment_date, appointments[j].appointment_date) > 30

\* C4: a booking by an owner with a profile, all of whose same-veterinarian
\* appointments within 30 minutes are Cancelled (at least one is), is answered
\* Available and its appointment is inserted
C4_CancelledNeverBlocks ==
    [][(/\ BookingStep
        /\ HasOwnerProfile(last'.client)
        /\ InWindow(appointments, last'.vet_id, AskedTime(last')) # {}
        /\ \A i \in InWindow(appointments, last'.vet_id, AskedTime(last')) :
              appointments[i].status = "Cancelled")
       => /\ last'.result = "Available"
          /\ Len(appointments') = Len(appointments) + 1
          /\ appointments'[Len(appointments')].vet_id = last'.vet_id
          /\ appointments'[Len(appointments')].appointment_date = AskedTime(last')]_vars

\* C4 witness: the slot of a Cancelled appointment was booked again for the
\* identical veterinarian and time
C4_Witness ==
    /\ last.op = "book_appointment"
    /\ last.result = "Available"
    /\ Len(appointments) >= 2
    /\ \E i \in 1 .. (Len(appointments) - 1) :
          /\ appointments[i].status = "Cancelled"
          /\ appointments[i].vet_id = appointments[Len(appointments)].vet_id
          /\ appointments[i].appointment_date = appointments[Len(appointments)].appointment_date
    /\ appointments[Len(appointments)].appointment_date = AskedTime(last)

\* C6: a booking answered Conflict inserts nothing and changes no appointment,
\* pet or medical entry
C6_ConflictChangesNothing ==
    [][(last'.op = "book_appointment" /\ last'.result = "Conflict")
       => /\ appointments' = appointments
          /\ pets' = pets
          /\ vaccinations' = vaccinations
          /\ medications' = medications]_vars

\* C6 witness: a booking was answered Conflict while the table still had room
C6_Witness ==
    /\ last.op = "book_appointment"
    /\ last.result = "Conflict"
    /\ Len(appointments) = 1

----------------------------------------------------------------------------
(* Claims about the inserted appointment, under SpecInsert *)

\* C5: an appointment inserted by a booking answered Available has status
\* Pending and carries the pet, the veterinarian and the combined date and time
\* of the request and the owner profile of the caller
C5_InsertedPendingAsRequested ==
    [][(last'.op = "book_appointment" /\ last'.result = "Available")
       => /\ Len(appointments') = Len(appointments) + 1
          /\ LET a == appointments'[Len(appointments')]
             IN  /\ a.status = "Pending"
                 /\ a.pet_id = last'.pet_id
                 /\ a.vet_id = last'.vet_id
                 /\ a.appointment_date = AskedTime(last')
                 /\ \E o \in owners : /\ o.user_id = session[last'.client].user_id
                                      /\ o.owner_id = a.owner_id]_vars

\* C5 witness: owner 2 booked pet 2 with veterinarian 2 on date 1 at 23:30 and
\* the row was inserted
C5_Witness ==
    /\ last.op = "book_appointment"
    /\ last.result = "Available"
    /\ last.client = 3 /\ last.pet_id = 2 /\ last.vet_id = 2
    /\ last.date = 1 /\ last.time = 1410
    /\ appointments # <<>>
    /\ appointments[Len(appointments)] =
          [pet_id |-> 2, owner_id |-> 2, vet_id |-> 2, appointment_date |-> 2850,
           status |-> "Pending"]

----------------------------------------------------------------------------
(* Claims about the status of an appointment, under SpecStatus *)

\* C7: an appointment whose status is Completed or Cancelled keeps that status
\* in every step
C7_TerminalStatusesStay ==
    [][\A i \in DOMAIN appointments :
          appointments[i].status \in {"Completed", "Cancelled"}
             => appointments'[i].status = appointments[i].status]_vars

\* C8: a step that makes an appointment Cancelled finds it Pending and is a
\* cancel_appointment of the Pet Owner whose owner profile the appointment
\* references
C8_CancelledOnlyFromPendingByOwner ==
    [][\A i \in DOMAIN appointments :
          (appointments'[i].status = "Cancelled" /\ appointments[i].status # "Cancelled")
             => /\ appointments[i].status = "Pending"
                /\ last'.op = "cancel_appointment"
                /\ HasOwnerProfile(last'.client)
                /\ owner_data(session[last'.client].user_id).owner_id
                      = appointments[i].owner_id]_vars

\* C9: no step moves a Confirmed appointment to Pending, nor a Completed one to
\* Pending or Confirmed
C9_StatusNeverMovesBack ==
    [][\A i \in DOMAIN appointments :
          /\ appointments[i].status = "Confirmed" => appointments'[i].status # "Pending"
          /\ appointments[i].status = "Completed"
                => appointments'[i].status \notin {"Pending", "Confirmed"}]_vars

\* The client holds a session of a Veterinarian who has a veterinarian profile
HasVetProfile(c) ==
    /\ session[c] # NoSession
    /\ session[c].role = "Veterinarian"
    /\ \E v \in veterinarians : v.user_id = session[c].user_id

\* The appointment exists and its vet_id is the profile id of client c
AssignedTo(c, a) ==
    /\ a \in DOMAIN appointments
    /\ \E v \in veterinarians : /\ v.user_id = session[c].user_id
                                /\ v.vet_id = appointments[a].vet_id

\* C10: update_appointment_status succeeds only for the assigned veterinarian;
\* a veterinarian with a profile who is not the appointment's veterinarian, or
\* who names no appointment, is answered NotFound and no status changes; the
\* assigned veterinarian setting a Pending appointment to Confirmed makes it
\* Confirmed
C10_UpdateOnlyByAssignedVet ==
    [][(last'.op = "update_appointment_status")
       => LET c == last'.client
              a == last'.appointment_id
          IN  /\ last'.result = "Success" => (HasVetProfile(c) /\ AssignedTo(c, a))
              /\ (HasVetProfile(c) /\ ~AssignedTo(c, a))
                    => (last'.result = "NotFound" /\ appointments' = appointments)
              /\ (/\ HasVetProfile(c) /\ AssignedTo(c, a)
                  /\ appointments[a].status = "Pending"
                  /\ last'.status = "Confirmed")
                    => (last'.result = "Success" /\ appointments'[a].status = "Confirmed")]_vars

\* C10 witness: veterinarian 2 was answered NotFound for an appointment of
\* veterinarian 1, which is still Pending
C10_Witness ==
    /\ last.op = "update_appointment_status"
    /\ last.client = 5
    /\ last.result = "NotFound"
    /\ last.appointment_id \in DOMAIN appointments
    /\ appointments[last.appointment_id].vet_id = 1
    /\ appointments[last.appointment_id].status = "Pending"

\* The appointment exists and its owner_id is the profile id of client c
OwnedBy(c, a) ==
    /\ a \in DOMAIN appointments
    /\ \E o \in owners : /\ o.user_id = session[c].user_id
                         /\ o.owner_id = appointments[a].owner_id

\* C11: cancel_appointment by the owner of an appointment that is Confirmed,
\* Completed or Cancelled is answered InvalidState and leaves the status as
\* it was
C11_CancelNonPendingIsInvalidState ==
    [][(/\ last'.op = "cancel_appointment"
        /\ HasOwnerProfile(last'.client)
        /\ OwnedBy(last'.client, last'.appointment_id)
        /\ appointments[last'.appointment_id].status # "Pending")
       => /\ last'.result = "InvalidState"
          /\ appointments' = appointments]_vars

\* C11 witness: the owner was answered InvalidState for a Confirmed appointment
\* of theirs, which is still Confirmed
C11_Witness ==
    /\ last.op = "cancel_appointment"
    /\ last.result = "InvalidState"
    /\ OwnedBy(last.client, last.appointment_id)
    /\ appointments[last.appointment_id].status = "Confirmed"

\* C12: cancel_appointment on a Pending appointment by its owner succeeds and
\* makes it Cancelled; by a Pet Owner with another owner profile it is
\* answered NotFound and the appointment stays Pending
C12_CancelPendingByOwnerOnly ==
    [][(/\ last'.op = "cancel_appointment"
        /\ HasOwnerProfile(last'.client)
        /\ last'.appointment_id \in DOMAIN appointments
        /\ appointments[last'.appointment_id].status = "Pending")
       => IF OwnedBy(last'.client, last'.appointment_id)
          THEN /\ last'.result = "Success"
               /\ appointments'[last'.appointment_id].status = "Cancelled"
          ELSE /\ last'.result = "NotFound"
               /\ appointments'[last'.appointment_id].status = "Pending"]_vars

\* C12 witness: owner 2 was answered NotFound for a Pending appointment of
\* owner 1, which is still Pending
C12_Witness ==
    /\ last.op = "cancel_appointment"
    /\ last.client = 3
    /\ last.result = "NotFound"
    /\ last.appointment_id \in DOMAIN appointments
    /\ appointments[last.appointment_id].owner_id = 1
    /\ appointments[last.appointment_id].status = "Pending"

----------------------------------------------------------------------------
(* Claims about overlapping bookings, under SpecConc *)

\* C3: the conflict check and the insert of a booking act as one unit: every
\* insert happens while no live appointment of the veterinarian lies within 30
\* minutes, so of two overlapping requests for one window at most one inserts
C3_CheckAndInsertAreOneUnit ==
    [][(last'.op = "book_appointment" /\ last'.result = "Available")
       => \A i \in InWindow(appointments, last'.vet_id, AskedTime(last')) :
             appointments[i].status = "Cancelled"]_vars


----------------------------------------------------------------------------
(* Claims about medical entries and the same-day completion, under SpecMed *)

MedicalOps == {"add_vaccination", "add_medication"}

StoreErrors == {"StoreErrorAtInsert", "StoreErrorAtUpdate"}

\* The veterinarian profile id of client c, who has one
VetIdOf(c) == vet_data(session[c].user_id).vet_id

\* Appointment row r is for pet P with veterinarian V on the current date
ForTodayVisit(r, P, V) ==
    /\ r.pet_id = P
    /\ r.vet_id = V
    /\ DateOf(r.appointment_date) = today

\* The step wrote the entry of the request recorded in last' and nothing else
\* to the medical tables
EntryInserted ==
    LET e == [pet_id |-> last'.pet_id, vet_id |-> VetIdOf(last'.client)]
    IN  IF last'.op = "add_vaccination"
        THEN vaccinations' = Append(vaccinations, e) /\ medications' = medications
        ELSE medications' = Append(medications, e) /\ vaccinations' = vaccinations

\* C13: after a successful add_vaccination or add_medication for pet P by
\* veterinarian V, every appointment of P with V dated today that was Pending
\* or Confirmed is Completed, and none for P with V today is left Pending or
\* Confirmed
C13_EntryCompletesTodaysVisits ==
    [][(last'.op \in MedicalOps /\ last'.result = "Success")
       => LET P == last'.pet_id
              V == VetIdOf(last'.client)
          IN  /\ \A a \in DOMAIN appointments :
                   (/\ ForTodayVisit(appointments[a], P, V)
                    /\ appointments[a].status \in {"Pending", "Confirmed"})
                   => appointments'[a].status = "Completed"
              /\ \A a \in DOMAIN appointments' :
                   ForTodayVisit(appointments'[a], P, V)
                   => appointments'[a].status \notin {"Pending", "Confirmed"}]_vars

\* C13 witness: one entry completed two visits of the pet with the
\* veterinarian on the current date
C13_Witness ==
    /\ last.op \in MedicalOps
    /\ last.result = "Success"
    /\ \E a, b \in DOMAIN appointments :
         /\ a # b
         /\ ForTodayVisit(appointments[a], last.pet_id, VetIdOf(last.client))
         /\ ForTodayVisit(appointments[b], last.pet_id, VetIdOf(last.client))
         /\ appointments[a].status = "Completed"
         /\ appointments[b].status = "Completed"

\* C14: add_vaccination and add_medication for pet P by veterinarian V leave
\* every appointment that is for another pet, for another veterinarian, dated
\* on another day or Cancelled exactly as it was, and add or remove none
C14_CompletionLeavesOthersUntouched ==
    [][(last'.op \in MedicalOps)
       => /\ DOMAIN appointments' = DOMAIN appointments
          /\ \A a \in DOMAIN appointments :
               (\/ ~HasVetProfile(last'.client)
                \/ ~ForTodayVisit(appointments[a], last'.pet_id, VetIdOf(last'.client))
                \/ appointments[a].status = "Cancelled")
               => appointments'[a] = appointments[a]]_vars

\* C14 witness: an entry completed a visit of today while a Cancelled visit of
\* the same pet with the same veterinarian on the same date is still Cancelled
C14_Witness ==
    /\ last.op \in MedicalOps
    /\ last.result = "Success"
    /\ \E a, b \in DOMAIN appointments :
         /\ ForTodayVisit(appointments[a], last.pet_id, VetIdOf(last.client))
         /\ ForTodayVisit(appointments[b], last.pet_id, VetIdOf(last.client))
         /\ appointments[a].status = "Completed"
         /\ appointments[b].status = "Cancelled"

\* C15: add_vaccination and add_medication by a veterinarian with a profile,
\* when no appointment of the pet with that veterinarian today is other than
\* Cancelled and the store does not fail, succeed, insert the entry and change
\* no appointment
C15_EntryNeedsNoAppointment ==
    [][(/\ last'.op \in MedicalOps
        /\ HasVetProfile(last'.client)
        /\ last'.result \notin StoreErrors
        /\ \A a \in DOMAIN appointments :
             ForTodayVisit(appointments[a], last'.pet_id, VetIdOf(last'.client))
             => appointments[a].status = "Cancelled")
       => /\ last'.result = "Success"
          /\ EntryInserted
          /\ appointments' = appointments]_vars

\* C15 witness: an entry was written while the schedule held appointments,
\* none of them a visit of the pet with the veterinarian today
C15_Witness ==
    /\ last.op \in MedicalOps
    /\ last.result = "Success"
    /\ Len(vaccinations) + Len(medications) = 1
    /\ appointments # << >>
    /\ \A a \in DOMAIN appointments :
         /\ ~ForTodayVisit(appointments[a], last.pet_id, VetIdOf(last.client))
         /\ appointments[a].status = "Pending"

\* C16: in every outcome of add_vaccination and add_medication either the
\* entry is in the store and every visit of the pet with the veterinarian
\* today that was not Cancelled is Completed, or no entry was added and no
\* appointment changed; the store never holds one write without the other
C16_EntryAndCompletionAreOneUnit ==
    [][(last'.op \in MedicalOps)
       => \/ /\ last'.result = "Success"
             /\ EntryInserted
             /\ \A a \in DOMAIN appointments :
                  (/\ ForTodayVisit(appointments[a], last'.pet_id,
                                    VetIdOf(last'.client))
                   /\ appointments[a].status # "Cancelled")
                  => appointments'[a].status = "Completed"
          \/ /\ last'.result # "Success"
             /\ vaccinations' = vaccinations
             /\ medications' = medications
             /\ appointments' = appointments]_vars

\* C16 witness: the store failed at the UPDATE of a request whose pet had a
\* Pending visit with the veterinarian today; the visit is still Pending and
\* the medical tables do not hold the entry
C16_Witness ==
    /\ last.op \in MedicalOps
    /\ last.result = "StoreErrorAtUpdate"
    /\ vaccinations = << >>
    /\ medications = << >>
    /\ \E a \in DOMAIN appointments :
         /\ ForTodayVisit(appointments[a], last.pet_id, VetIdOf(last.client))
         /\ appointments[a].status = "Pending"


----------------------------------------------------------------------------
(* Claims about listings, under SpecView *)

\* The owner profile id of client c, who has one
OwnerIdOf(c) == owner_data(session[c].user_id).owner_id

\* The role of the client whose request the latest step handled
CallerRole == session[last.client].role

\* The medical entry a listed row stands for
EntryOf(r) == IF r.table = "vaccinations" THEN vaccinations[r.id] ELSE medications[r.id]

\* C17: view_appointments called by a Veterinarian lists only appointments
\* whose vet_id is the caller's veterinarian profile id, and called by a Pet
\* Owner only appointments whose owner_id is the caller's owner profile id
C17_AppointmentsListedAreOwn ==
    (last.op = "view_appointments" /\ last.result = "Listed")
    => \A r \in last.rows :
         /\ r.table = "appointments"
         /\ CallerRole = "Veterinarian"
            => /\ HasVetProfile(last.client)
               /\ appointments[r.id].vet_id = VetIdOf(last.client)
         /\ CallerRole = "Pet Owner"
            => /\ HasOwnerProfile(last.client)
               /\ appointments[r.id].owner_id = OwnerIdOf(last.client)

\* C17 witness: a veterinarian was listed an appointment while the store also
\* holds an appointment with another veterinarian
C17_Witness ==
    /\ last.op = "view_appointments"
    /\ last.result = "Listed"
    /\ CallerRole = "Veterinarian"
    /\ last.rows # {}
    /\ \E a \in DOMAIN appointments : appointments[a].vet_id # VetIdOf(last.client)

ProfileListings ==
    {"view_appointments", "view_vaccinations", "view_medications", "homePage",
     "manage_pets"}

\* C18: for a Veterinarian without a veterinarian profile and a Pet Owner
\* without an owner profile, each of view_appointments, view_vaccinations,
\* view_medications, the dashboard and manage_pets that the caller's role may
\* call answers normally with no rows, whatever the store holds
C18_NoProfileListsNothing ==
    (/\ last.op \in ProfileListings
     /\ last.result # "Forbidden"
     /\ \/ CallerRole = "Veterinarian" /\ ~HasVetProfile(last.client)
        \/ CallerRole = "Pet Owner" /\ ~HasOwnerProfile(last.client))
    => /\ last.result = "Listed"
       /\ last.rows = {}

\* C18 witness: a Veterinarian without a profile was listed no vaccination
\* while the store holds one whose pet is still there
C18_Witness ==
    /\ last.op = "view_vaccinations"
    /\ last.result = "Listed"
    /\ CallerRole = "Veterinarian"
    /\ ~HasVetProfile(last.client)
    /\ last.rows = {}
    /\ \E i \in DOMAIN vaccinations : JoinsPet(vaccinations[i].pet_id)

\* C19: in every reachable state, also after pets were deleted and users
\* soft-deleted, view_appointments called by the Admin lists every appointment
\* of the store, and the Admin's medical listings (admin_medical,
\* view_vaccinations, view_medications) list every vaccination and medication
C19_AdminListsEverything ==
    (last.result = "Listed" /\ CallerRole = "Admin")
    => /\ last.op = "view_appointments"
          => last.rows = RowsOf("appointments", DOMAIN appointments)
       /\ last.op = "admin_medical"
          => last.rows = RowsOf("vaccinations", DOMAIN vaccinations)
                         \cup RowsOf("medications", DOMAIN medications)
       /\ last.op = "view_vaccinations"
          => last.rows = RowsOf("vaccinations", DOMAIN vaccinations)
       /\ last.op = "view_medications"
          => last.rows = RowsOf("medications", DOMAIN medications)

VetEntryListings == {"view_vaccinations", "view_medications", "homePage", "pet_medical"}

\* C20: every operation of the Veterinarian role that returns vaccinations or
\* medications (view_vaccinations, view_medications, the dashboard's recent
\* activities, pet_medical) returns only entries whose vet_id is the caller's
\* own veterinarian profile id
C20_VetReadsOnlyOwnEntries ==
    (/\ last.op \in VetEntryListings
     /\ last.result = "Listed"
     /\ CallerRole = "Veterinarian")
    => \A r \in last.rows :
         r.table \in {"vaccinations", "medications"}
         => /\ HasVetProfile(last.client)
            /\ EntryOf(r).vet_id = VetIdOf(last.client)


----------------------------------------------------------------------------
(* Claims about the role gate, under SpecGate *)

\* The roles named by the @role_required decorator of each protected operation
AllowedRoles(op) ==
    CASE op \in {"homePage", "view_appointments"} -> {"Admin", "Veterinarian", "Pet Owner"}
      [] op \in {"manage_delete_pet", "manage_delete_users", "admin_medical"} -> {"Admin"}
      [] op = "manage_pets" -> {"Admin", "Pet Owner"}
      [] op \in {"book_appointment", "cancel_appointment"} -> {"Pet Owner"}
      [] op \in {"view_vaccinations", "view_medications"} -> {"Admin", "Veterinarian"}
      [] op \in {"pet_medical", "add_vaccination", "add_medication",
                 "update_appointment_status"} -> {"Veterinarian"}

ProtectedOps ==
    {"homePage", "view_appointments", "manage_delete_pet", "manage_delete_users",
     "admin_medical", "manage_pets", "book_appointment", "cancel_appointment",
     "view_vaccinations", "view_medications", "pet_medical", "add_vaccination",
     "add_medication", "update_appointment_status"}

\* The step wrote to no table and to no session
StoreUnchanged ==
    UNCHANGED <<appointments, vaccinations, medications, owners, veterinarians, pets,
                users, session>>

\* C21: a protected operation called without an identity in the session is
\* answered Unauthenticated, and called with a role outside the operation's
\* allowed set is answered Forbidden; in both cases no table and no session
\* changes and no rows are returned
C21_GateRefusesBeforeTheBody ==
    [][(last'.op \in ProtectedOps)
       => /\ session[last'.client] = NoSession
             => /\ last'.result = "Unauthenticated"
                /\ last'.rows = {}
                /\ StoreUnchanged
          /\ (/\ session[last'.client] # NoSession
              /\ session[last'.client].role \notin AllowedRoles(last'.op))
             => /\ last'.result = "Forbidden"
                /\ last'.rows = {}
                /\ StoreUnchanged]_vars

\* C21 witness: a veterinarian asking to cancel a Pending appointment was
\* answered Forbidden and the appointment is still Pending
C21_Witness ==
    /\ last.op = "cancel_appointment"
    /\ last.result = "Forbidden"
    /\ session[last.client].role = "Veterinarian"
    /\ 1 \in DOMAIN appointments
    /\ appointments[1].status = "Pending"


----------------------------------------------------------------------------
(* Claims about accounts, under SpecUsers *)

\* C22: a login with the address and the right password of a user whose
\* vchr_status was set to D by manage_delete_users or delete_account fails
\* and sets no session: a successful login's session is an Active user's
C22_DeletedUsersCannotLogIn ==
    (last.op = "login" /\ last.result = "Success")
    => \E u \in users : /\ u.user_id = session[last.client].user_id
                        /\ u.vchr_status = "A"

\* C23: in every state reached by register, manage_add_users and the delete
\* operations no two Active users have the same email
C23_ActiveEmailsAreUnique ==
    \A u, w \in users :
        (u.vchr_status = "A" /\ w.vchr_status = "A" /\ u.email = w.email)
        => u.user_id = w.user_id


----------------------------------------------------------------------------
(* Claims about overlapping status changes, under SpecRace *)

\* C24: a cancellation by the owner and an update by the assigned
\* veterinarian that overlap on one Pending appointment act as if one ran
\* after the other: an appointment the veterinarian has moved to Confirmed or
\* Completed is never overwritten to Cancelled
C24_StatusChangesAreSerialized ==
    [][\A a \in DOMAIN appointments :
          appointments[a].status \in {"Confirmed", "Completed"}
          => appointments'[a].status # "Cancelled"]_vars


----------------------------------------------------------------------------
(* Claims about the stored status values, under SpecFreeStatus *)

\* C25: in every reachable state the status of each appointment is Pending,
\* Confirmed, Completed or Cancelled, whatever status value the callers of
\* update_appointment_status supply
C25_StatusIsOneOfFour ==
    \A a \in DOMAIN appointments : appointments[a].status \in Statuses


----------------------------------------------------------------------------
(* Claims about what an appointment keeps, under SpecFrame *)

\* C26: appointments are never deleted and only their status changes: in
\* every step the set of appointment ids only grows, and each appointment
\* keeps the pet, owner, veterinarian and timestamp it was created with
C26_OnlyStatusChanges ==
    [][/\ DOMAIN appointments \subseteq DOMAIN appointments'
       /\ \A a \in DOMAIN appointments :
             /\ appointments'[a].pet_id = appointments[a].pet_id
             /\ appointments'[a].owner_id = appointments[a].owner_id
             /\ appointments'[a].vet_id = appointments[a].vet_id
             /\ appointments'[a].appointment_date = appointments[a].appointment_date]_vars

\* an appointment was cancelled or completed, and its pet has been deleted
C26_Witness ==
    \E a \in DOMAIN appointments :
        /\ appointments[a].status \in {"Cancelled", "Completed"}
        /\ \A p \in pets : p.pet_id # appointments[a].pet_id


----------------------------------------------------------------------------
(* Claims about profile updates, under SpecProfile *)

OwnerRows(user_id) == {o \in owners : o.user_id = user_id}

VetRows(user_id) == {v \in veterinarians : v.user_id = user_id}

----------------------------------------------------------------------------
(* A claim about whose pet an appointment names, under SpecInsert *)

\* C28: in every reachable state the pet an appointment references, while
\* that pet exists, belongs to the owner the appointment references
C28_PetBelongsToAppointmentOwner ==
    \A a \in DOMAIN appointments :
        \A p \in pets :
            p.pet_id = appointments[a].pet_id => p.owner_id = appointments[a].owner_id

----------------------------------------------------------------------------
(* A claim about the sessions of deleted users, under SpecView *)

\* C29: once the Admin has soft-deleted a user, every protected request from
\* a session that user opened before the deletion is rejected
C29_DeletedUsersSessionIsRejected ==
    (/\ last.op \in ProtectedOps
     /\ session[last.client] # NoSession
     /\ \E u \in users : /\ u.user_id = session[last.client].user_id
                         /\ u.vchr_status = "D")
    => last.result \in {"Unauthenticated", "Forbidden"}


----------------------------------------------------------------------------
(* A claim about callers without a profile row, under SpecNoProfile *)

\* Client c passes the gate of op and has no row in the table of its role
LacksProfile(c, op) ==
    /\ session[c] # NoSession
    /\ session[c].role \in AllowedRoles(op)
    /\ \/ /\ session[c].role = "Pet Owner"
          /\ \A o \in owners : o.user_id # session[c].user_id
       \/ /\ session[c].role = "Veterinarian"
          /\ \A v \in veterinarians : v.user_id # session[c].user_id

\* The outcomes that report a failure to such a caller: the uncaught
\* TypeError (500) and, in book_appointment, the taken slot, which is tested
\* before owner_data is used
ProfileErrors == {"ServerError", "Conflict"}

\* C30: a caller with the required role and no profile row (a veterinarian
\* posting update_appointment_status, add_vaccination or add_medication, an
\* owner posting book_appointment or cancel_appointment) gets an error
\* outcome, and no appointment, vaccination or medication is inserted or
\* changed
C30_NoProfileCommitsNothing ==
    [][(/\ last'.op \in {"update_appointment_status", "add_vaccination",
                         "add_medication", "book_appointment", "cancel_appointment"}
        /\ LacksProfile(last'.client, last'.op))
       => /\ last'.result \in ProfileErrors
          /\ UNCHANGED <<appointments, vaccinations, medications>>]_vars

\* veterinarian 7 posted a status for an appointment that exists and is
\* Pending, and got the server error
C30_Witness ==
    /\ last.op = "update_appointment_status"
    /\ last.client = 7
    /\ last.result = "ServerError"
    /\ last.appointment_id \in DOMAIN appointments
    /\ appointments[last.appointment_id].status = "Pending"

====
